---- MODULE Spec2Model ----
(***************************************************************************)
(* Model of create_buckeye_json.py: the key normaliser uttlabel_to_uttkey, *)
(* the VAD extractor read_vad_from_fa and main's segment assembly and      *)
(* split assignment.                                                       *)
(*                                                                         *)
(* Strings are sequences of one-character strings, so that slicing,        *)
(* splitting, joining and formatting are computed as the code computes     *)
(* them.  Timestamps are integers counting ticks; one second is            *)
(* TicksPerSec ticks, one 100 Hz frame is TicksPerFrame ticks.  Arithmetic *)
(* on timestamps is exact (binary floating point error is not modelled).   *)
(***************************************************************************)
EXTENDS Integers, Sequences, FiniteSets, TLC

VARIABLES
  file,              \* the lines of the forced-alignment file read so far
  vad_dict,          \* vad_dict[fi]: the dictionary of the call with frame_indices = fi
  prev_utterance,
  prev_token_label,
  prev_end_time,
  start_time,
  pc,                \* "read", "main", "done" or "error"
  exc,               \* the exception that ended the run, or "none"
  disk,              \* audio files whose existence has been looked up, with the answer
  key_idx,           \* number of utterance keys main has assembled
  segments,          \* main's list of [in_path, offset, duration, out_path]
  seg_idx,           \* number of segments the split loop has handled
  split_segments,    \* per split, the indices into segments of the records it holds
  json_out,          \* per split, the array written to <split>.json
  key_arg,           \* argument of a call of uttlabel_to_uttkey
  key_ret            \* result of that call

vars == << file, vad_dict, prev_utterance, prev_token_label, prev_end_time,
           start_time, pc, exc, disk, key_idx, segments, seg_idx,
           split_segments, json_out, key_arg, key_ret >>

\* Longest forced-alignment file (number of lines).
MaxLen == 3
\* Resolution of the timestamps: ticks per 100 Hz frame.
TicksPerFrame == 2
\* The factor 100 of "round(t * 100)".
FrameRate == 100

TicksPerSec == FrameRate * TicksPerFrame
HalfSec == TicksPerSec \div 2

\* The value -1 (seconds) that prev_end_time and start_time start with.
Sentinel == 0 - TicksPerSec

Min(a, b) == IF a < b THEN a ELSE b
Max(a, b) == IF a > b THEN a ELSE b

(***************************************************************************)
(* Strings.                                                                *)
(***************************************************************************)
\* The characters in use, in code point order.
CharOrder ==
  << "-", ".", "/", "0", "1", "2", "3", "4", "5", "6", "7", "8", "9", "_",
     "a", "b", "c", "e", "h", "i", "l", "n", "o", "r", "s", "t", "v", "w", "x" >>

Ord(c) == CHOOSE i \in 1..Len(CharOrder) : CharOrder[i] = c

\* Python's str "<": lexicographic by code point, a proper prefix is smaller.
RECURSIVE StrLess(_, _)
StrLess(a, b) ==
  IF b = << >> THEN FALSE
  ELSE IF a = << >> THEN TRUE
  ELSE IF Head(a) # Head(b) THEN Ord(Head(a)) < Ord(Head(b))
  ELSE StrLess(Tail(a), Tail(b))

\* s[i:j] of Python for 0 <= i, 0 <= j.
Slice(s, i, j) == SubSeq(s, i + 1, Min(j, Len(s)))
\* s[i:]
SliceFrom(s, i) == SubSeq(s, i + 1, Len(s))
\* s[-n:]
SliceLast(s, n) == SubSeq(s, Max(1, Len(s) - n + 1), Len(s))

\* s.startswith(p)
StartsWith(s, p) == Len(s) >= Len(p) /\ SubSeq(s, 1, Len(p)) = p

\* s.split(sep) for a one-character separator: every occurrence splits,
\* empty fields are kept.
RECURSIVE Split(_, _)
Split(s, sep) ==
  IF \A i \in 1..Len(s) : s[i] # sep THEN << s >>
  ELSE LET k == CHOOSE i \in 1..Len(s) :
                  s[i] = sep /\ \A j \in 1..(i - 1) : s[j] # sep
       IN << SubSeq(s, 1, k - 1) >> \o Split(SubSeq(s, k + 1, Len(s)), sep)

\* sep.join(fields)
RECURSIVE Join(_, _)
Join(fields, sep) ==
  IF fields = << >> THEN << >>
  ELSE IF Len(fields) = 1 THEN fields[1]
  ELSE fields[1] \o << sep >> \o Join(Tail(fields), sep)

\* list.pop(i) leaves the list without its element at 0-based index i.
WithoutIndex(fields, i) ==
  SubSeq(fields, 1, i) \o SubSeq(fields, i + 2, Len(fields))

nchlt == << "n", "c", "h", "l", "t" >>

(***************************************************************************)
(* uttlabel_to_uttkey                                                      *)
(***************************************************************************)
\* utt_split.pop(2) raises IndexError when the label has fewer than 3 fields.
KeyRaises(utterance) ==
  StartsWith(utterance, nchlt) /\ Len(Split(utterance, "_")) < 3

uttlabel_to_uttkey_pop1(utterance) ==
  IF StartsWith(utterance, nchlt)
  THEN LET utt_split == Split(utterance, "_")
           speaker == utt_split[2]
       IN speaker \o << "_" >> \o Join(WithoutIndex(utt_split, 1), "-")
  ELSE Slice(utterance, 0, 3) \o << "_" >> \o SliceFrom(utterance, 3)

uttlabel_to_uttkey(utterance) ==
  IF StartsWith(utterance, nchlt)
  THEN LET utt_split == Split(utterance, "_")
           speaker == utt_split[3]
       IN speaker \o << "_" >> \o Join(WithoutIndex(utt_split, 2), "-")
  ELSE Slice(utterance, 0, 3) \o << "_" >> \o SliceFrom(utterance, 3)

(***************************************************************************)
(* Rounding and the seconds-to-frames conversion.                          *)
(***************************************************************************)
\* Python 3 round(num / den) for den > 0: to nearest, ties to even.
PyRound(num, den) ==
  LET q == num \div den
      r == num % den
  IN IF 2 * r < den THEN q
     ELSE IF 2 * r > den THEN q + 1
     ELSE IF q % 2 = 0 THEN q ELSE q + 1

\* int(round(t * 100)) for a time of t ticks, that is t / TicksPerSec seconds.
Round100(t) == PyRound(t * FrameRate, TicksPerSec)

(***************************************************************************)
(* read_vad_from_fa                                                        *)
(***************************************************************************)
IsSilence_onlySPN(token_label) == token_label = "SPN"

\* token_label in ["SIL", "SPN"]
IsSilence(token_label) == token_label \in {"SIL", "SPN"}

\* The interval appended when a run is closed inside the loop.
CloseInterval(frame_indices, start, end) ==
  IF frame_indices
  THEN << Round100(start), Round100(end) + 1 >>
  ELSE << start, end >>

\* The interval appended after the loop.
FlushInterval(frame_indices, start, end) ==
  IF frame_indices
  THEN << Round100(start), Round100(end) + 1 >>
  ELSE << start, end >>

\* "if utt_key not in vad_dict: vad_dict[utt_key] = []"
WithKey(d, key) ==
  IF key \in DOMAIN d THEN d ELSE d @@ (key :> << >>)

\* The local state of one call of read_vad_from_fa.
Locals(d, pu, pl, pe, st) ==
  [vad_dict |-> d, prev_utterance |-> pu, prev_token_label |-> pl,
   prev_end_time |-> pe, start_time |-> st]

\* The boundary test of the loop.
Boundary(loc, line) ==
  loc.prev_end_time # line.start \/ loc.prev_utterance # line.utt

\* The loop body raises: IndexError from uttlabel_to_uttkey, or KeyError when
\* the run to close belongs to a key the dictionary does not have.
LoopRaises(loc, line) ==
  \/ KeyRaises(line.utt)
  \/ /\ ~IsSilence(line.label)
     /\ Boundary(loc, line)
     /\ loc.prev_end_time # Sentinel
     /\ \/ KeyRaises(loc.prev_utterance)
        \/ uttlabel_to_uttkey(loc.prev_utterance)
             \notin DOMAIN WithKey(loc.vad_dict, uttlabel_to_uttkey(line.utt))

\* A loop body that advances the lookback state on silence tokens too.
LoopBody_advanceOnSilence(frame_indices, loc, line) ==
  LET d1 == WithKey(loc.vad_dict, uttlabel_to_uttkey(line.utt))
      prev_key == uttlabel_to_uttkey(loc.prev_utterance)
  IN IF IsSilence(line.label)
     THEN Locals(d1, line.utt, line.label, line.end, loc.start_time)
     ELSE IF Boundary(loc, line)
     THEN Locals(
            IF loc.prev_end_time # Sentinel
            THEN [d1 EXCEPT ![prev_key] = Append(@,
                    CloseInterval(frame_indices, loc.start_time, loc.prev_end_time))]
            ELSE d1,
            line.utt, line.label, line.end, line.start)
     ELSE Locals(d1, line.utt, line.label, line.end, loc.start_time)

\* One iteration of "for line in f", when it does not raise.
LoopBody(frame_indices, loc, line) ==
  LET d1 == WithKey(loc.vad_dict, uttlabel_to_uttkey(line.utt))
      prev_key == uttlabel_to_uttkey(loc.prev_utterance)
  IN IF IsSilence(line.label)
     THEN [loc EXCEPT !.vad_dict = d1]
     ELSE IF Boundary(loc, line)
     THEN Locals(
            IF loc.prev_end_time # Sentinel
            THEN [d1 EXCEPT ![prev_key] = Append(@,
                    CloseInterval(frame_indices, loc.start_time, loc.prev_end_time))]
            ELSE d1,
            line.utt, line.label, line.end, line.start)
     ELSE Locals(d1, line.utt, line.label, line.end, loc.start_time)

\* The code after the loop raises KeyError: the key of prev_utterance is not
\* in the dictionary.
FlushRaises(loc) ==
  \/ KeyRaises(loc.prev_utterance)
  \/ uttlabel_to_uttkey(loc.prev_utterance) \notin DOMAIN loc.vad_dict

\* The dictionary returned, when the code after the loop does not raise.
Flush(frame_indices, loc) ==
  [loc.vad_dict EXCEPT ![uttlabel_to_uttkey(loc.prev_utterance)] = Append(@,
      FlushInterval(frame_indices, loc.start_time, loc.prev_end_time))]


(***************************************************************************)
(* main                                                                    *)
(***************************************************************************)
train == << "t", "r", "a", "i", "n" >>
val == << "v", "a", "l" >>
test == << "t", "e", "s", "t" >>

Spk(a, b) == << "s", a, b >>

speakers_dict ==
  (train :> << Spk("0","2"), Spk("0","4"), Spk("0","5"), Spk("0","8"),
               Spk("1","2"), Spk("1","6"), Spk("0","3"), Spk("0","6"),
               Spk("1","0"), Spk("1","1"), Spk("1","3"), Spk("3","8") >>)
  @@ (val :> << Spk("1","8"), Spk("1","7"), Spk("3","7"), Spk("3","9"),
                Spk("1","9"), Spk("2","2"), Spk("4","0"), Spk("3","4") >>)
  @@ (test :> << Spk("2","0"), Spk("2","5"), Spk("2","7"), Spk("0","1"),
                 Spk("2","6"), Spk("3","1"), Spk("2","9"), Spk("2","3"),
                 Spk("2","4"), Spk("3","2"), Spk("3","3"), Spk("3","0") >>)

\* The order in which "for split in speakers_dict" visits the splits.
SplitOrder == << train, val, test >>

InList(x, list) == \E i \in 1..Len(list) : list[i] = x

\* sorted(vad_dict)
RECURSIVE SortedKeys(_)
SortedKeys(keys) ==
  IF keys = {} THEN << >>
  ELSE LET m == CHOOSE x \in keys : \A y \in keys \ {x} : StrLess(x, y)
       IN << m >> \o SortedKeys(keys \ {m})

Digits == << "0", "1", "2", "3", "4", "5", "6", "7", "8", "9" >>

\* str(n) for n >= 0
RECURSIVE Decimal(_)
Decimal(n) ==
  IF n < 10 THEN << Digits[n + 1] >>
  ELSE Decimal(n \div 10) \o << Digits[(n % 10) + 1] >>

RECURSIVE ZeroPad(_, _)
ZeroPad(s, width) == IF Len(s) >= width THEN s ELSE ZeroPad(<< "0" >> \o s, width)

\* "{:06d}".format(n): the sign counts in the width
Format06d(n) ==
  IF n < 0 THEN << "-" >> \o ZeroPad(Decimal(0 - n), 5)
  ELSE ZeroPad(Decimal(n), 6)

\* str(Path(a)/b) for relative paths a, b without "." or ".." parts
PathJoin(a, b) == a \o << "/" >> \o b

\* Path(p).parts[0]
FirstPart(p) == Split(p, "/")[1]

\* in_path of an utterance key
InPath(key) == PathJoin(Slice(key, 0, 3), Slice(key, 0, 3) \o SliceLast(key, 3))

\* (data_path/in_path).with_suffix(".wav"), relative to data_path; a name
\* without a "." has no suffix to replace
WavFn(in_path) == in_path \o << ".", "w", "a", "v" >>

MainFrames_noPlus1(start, end) == << Round100(start), Round100(end) >>

\* The frame numbers main puts in the segment key.
MainFrames(start, end) == << Round100(start), Round100(end) + 1 >>

\* A record whose duration is the end of the interval.
MakeSegment_durationIsEnd(key, iv) ==
  LET speaker == Slice(key, 0, 3)
      in_path == InPath(key)
      frames == MainFrames(iv[1], iv[2])
      segment_key == key \o << "_" >> \o Format06d(frames[1]) \o << "-" >>
                       \o Format06d(frames[2])
  IN << in_path, iv[1], iv[2], PathJoin(speaker, segment_key) >>

\* The record main appends for one interval of an utterance key.
MakeSegment(key, iv) ==
  LET speaker == Slice(key, 0, 3)
      in_path == InPath(key)
      frames == MainFrames(iv[1], iv[2])
      segment_key == key \o << "_" >> \o Format06d(frames[1]) \o << "-" >>
                       \o Format06d(frames[2])
      offset == iv[1]
      duration == iv[2] - iv[1]
      out_path == PathJoin(speaker, segment_key)
  IN << in_path, offset, duration, out_path >>

\* The records of one utterance key, in the order of its intervals.
KeySegments(key, intervals) ==
  [i \in 1..Len(intervals) |-> MakeSegment(key, intervals[i])]

KeepMissing(exists) == TRUE

\* "if not wav_fn.exists(): continue" - the key is assembled when its audio exists
Assembled(exists) == exists

\* The splits whose speaker list has the speaker, in table order.
SplitsOf(speaker) ==
  SelectSeq(SplitOrder, LAMBDA sp : InList(speaker, speakers_dict[sp]))

TargetSplits_all(speaker) == SplitOrder

\* Target splits with test as the bucket of the speakers no split lists.
TargetSplits_defaultTest(speaker) ==
  IF SplitsOf(speaker) = << >> THEN << test >> ELSE << SplitsOf(speaker)[1] >>

\* The splits the inner loop appends the segment to: it breaks at the first.
TargetSplits(speaker) ==
  IF SplitsOf(speaker) = << >> THEN << >> ELSE << SplitsOf(speaker)[1] >>

(***************************************************************************)
(* The forced-alignment files.                                             *)
(***************************************************************************)
s0203a == << "s", "0", "2", "0", "3", "a" >>
s0701a == << "s", "0", "7", "0", "1", "a" >>
s1801b == << "s", "1", "8", "0", "1", "b" >>
s2002a == << "s", "2", "0", "0", "2", "a" >>

\* Files with timestamps finer than a frame: a line starts 0 or 1 tick after
\* the end of the line before it and lasts 0 or 1 tick.  The speaker of the
\* first utterance is in val, the speaker of the second is in no split.
FineFiles ==
  [utts |-> << s1801b, s0701a >>, labels |-> {"SIL", "SPN", "DH"},
   unit |-> 1, gaps |-> {0, 1}, durations |-> {0, 1}]

\* Files with timestamps in half seconds: a line starts where the line before
\* it ends and lasts 0.5 or 1 second.  The speakers are in train and in test.
CoarseFiles ==
  [utts |-> << s0203a, s2002a >>, labels |-> {"SIL", "DH", "AH"},
   unit |-> HalfSec, gaps |-> {0}, durations |-> {1, 2}]

\* The lines that can follow the lines read so far: the records of an
\* utterance are contiguous and times never decrease.
NextLines(family, lines) ==
  LET first_utt == IF lines = << >> THEN 1
                   ELSE CHOOSE i \in 1..Len(family.utts) :
                          family.utts[i] = lines[Len(lines)].utt
      last_end == IF lines = << >> THEN 0 ELSE lines[Len(lines)].end
  IN { [utt |-> family.utts[u], start |-> last_end + g * family.unit,
        end |-> last_end + (g + d) * family.unit, label |-> l] :
         u \in first_utt..Len(family.utts), g \in family.gaps,
         d \in family.durations, l \in family.labels }

(***************************************************************************)
(* The run: read_vad_from_fa, then main's two loops and the json dump.     *)
(***************************************************************************)
NoKey == << >>

Init ==
  /\ file = << >>
  /\ vad_dict = [fi \in BOOLEAN |-> << >>]
  /\ prev_utterance = << >>
  /\ prev_token_label = ""
  /\ prev_end_time = Sentinel
  /\ start_time = Sentinel
  /\ pc = "read"
  /\ exc = "none"
  /\ disk = << >>
  /\ key_idx = 0
  /\ segments = << >>
  /\ seg_idx = 0
  /\ split_segments = [sp \in {train, val, test} |-> << >>]
  /\ json_out = << >>
  /\ key_arg = NoKey
  /\ key_ret = NoKey

LocalsOf(fi) ==
  Locals(vad_dict[fi], prev_utterance, prev_token_label, prev_end_time, start_time)

mainVars == << disk, key_idx, segments, seg_idx, split_segments, json_out >>
keyVars == << key_arg, key_ret >>

\* The next line of the file is read and goes through the loop body.
ReadLine(family) ==
  /\ pc = "read"
  /\ Len(file) < MaxLen
  /\ \E line \in NextLines(family, file) :
       /\ file' = Append(file, line)
       /\ IF LoopRaises(LocalsOf(FALSE), line)
          THEN /\ pc' = "error"
               /\ exc' = IF KeyRaises(line.utt) THEN "IndexError" ELSE "KeyError"
               /\ UNCHANGED << vad_dict, prev_utterance, prev_token_label,
                               prev_end_time, start_time >>
          ELSE /\ vad_dict' = [fi \in BOOLEAN |-> LoopBody(fi, LocalsOf(fi), line).vad_dict]
               /\ prev_utterance' = LoopBody(FALSE, LocalsOf(FALSE), line).prev_utterance
               /\ prev_token_label' = LoopBody(FALSE, LocalsOf(FALSE), line).prev_token_label
               /\ prev_end_time' = LoopBody(FALSE, LocalsOf(FALSE), line).prev_end_time
               /\ start_time' = LoopBody(FALSE, LocalsOf(FALSE), line).start_time
               /\ UNCHANGED << pc, exc >>
  /\ UNCHANGED << mainVars, keyVars >>

\* The file has no more lines: the code after the loop, and the return to main.
EndOfFile ==
  /\ pc = "read"
  /\ IF FlushRaises(LocalsOf(FALSE))
     THEN /\ pc' = "error"
          /\ exc' = "KeyError"
          /\ UNCHANGED vad_dict
     ELSE /\ vad_dict' = [fi \in BOOLEAN |-> Flush(fi, LocalsOf(fi))]
          /\ pc' = "main"
          /\ UNCHANGED exc
  /\ UNCHANGED << file, prev_utterance, prev_token_label, prev_end_time,
                  start_time, mainVars, keyVars >>

readVars == << file, vad_dict, prev_utterance, prev_token_label,
               prev_end_time, start_time >>

\* main calls read_vad_from_fa(..., frame_indices=False)
MainVad == vad_dict[FALSE]

Keys == SortedKeys(DOMAIN MainVad)

\* One iteration of "for utt_key in sorted(vad_dict)".
AssembleKey ==
  /\ pc = "main"
  /\ key_idx < Len(Keys)
  /\ LET key == Keys[key_idx + 1]
         wav_fn == WavFn(InPath(key))
     IN \E exists \in BOOLEAN :
          /\ wav_fn \in DOMAIN disk => exists = disk[wav_fn]
          /\ disk' = IF wav_fn \in DOMAIN disk THEN disk ELSE disk @@ (wav_fn :> exists)
          /\ segments' = IF Assembled(exists)
                         THEN segments \o KeySegments(key, MainVad[key])
                         ELSE segments
  /\ key_idx' = key_idx + 1
  /\ UNCHANGED << readVars, pc, exc, seg_idx, split_segments, json_out, keyVars >>

RECURSIVE Prefixed(_, _)
\* The output path after the inner loop has prepended the target splits.
Prefixed(out_path, targets) ==
  IF targets = << >> THEN out_path
  ELSE Prefixed(PathJoin(targets[1], out_path), Tail(targets))

\* One iteration of "for segment in segments".
SplitSegment ==
  /\ pc = "main"
  /\ key_idx = Len(Keys)
  /\ seg_idx < Len(segments)
  /\ LET i == seg_idx + 1
         speaker == FirstPart(segments[i][1])
         targets == TargetSplits(speaker)
     IN /\ segments' = [segments EXCEPT ![i][4] = Prefixed(@, targets)]
        /\ split_segments' =
             [sp \in DOMAIN split_segments |->
                IF InList(sp, targets) THEN Append(split_segments[sp], i)
                ELSE split_segments[sp]]
  /\ seg_idx' = seg_idx + 1
  /\ UNCHANGED << readVars, pc, exc, disk, key_idx, json_out, keyVars >>

\* json.dump of the three split arrays.
WriteJson ==
  /\ pc = "main"
  /\ key_idx = Len(Keys)
  /\ seg_idx = Len(segments)
  /\ json_out' = [sp \in DOMAIN split_segments |->
                    [k \in 1..Len(split_segments[sp]) |-> segments[split_segments[sp][k]]]]
  /\ pc' = "done"
  /\ UNCHANGED << readVars, exc, disk, key_idx, segments, seg_idx, split_segments,
                  keyVars >>

Next ==
  ReadLine(FineFiles) \/ EndOfFile \/ AssembleKey \/ SplitSegment \/ WriteJson

Spec == Init /\ [][Next]_vars

NextE2E ==
  ReadLine(CoarseFiles) \/ EndOfFile \/ AssembleKey \/ SplitSegment \/ WriteJson

SpecE2E == Init /\ [][NextE2E]_vars

(***************************************************************************)
(* A call of uttlabel_to_uttkey on its own.                                *)
(***************************************************************************)
\* Longest label tail.
MaxTail == 6

RECURSIVE Strings(_, _)
\* The strings of at most n characters of an alphabet.
Strings(alphabet, n) ==
  IF n = 0 THEN { << >> }
  ELSE LET shorter == Strings(alphabet, n - 1)
       IN shorter \cup { << c >> \o t : c \in alphabet, t \in shorter }

nchlt_xho_02_001 ==
  nchlt \o << "_", "x", "h", "o", "_", "0", "2", "_", "0", "0", "1" >>

\* Labels with and without the prefix "nchlt", with 1 to MaxTail + 1 fields.
KeyLabels ==
  { head \o tail : head \in { << >>, << "s" >>, nchlt },
                   tail \in Strings({"_", "0", "a"}, MaxTail) }
  \cup { s0203a, nchlt_xho_02_001 }

InitKey ==
  /\ key_arg \in KeyLabels
  /\ key_ret = NoKey
  /\ pc = "call"
  /\ exc = "none"
  /\ file = << >>
  /\ vad_dict = [fi \in BOOLEAN |-> << >>]
  /\ prev_utterance = << >>
  /\ prev_token_label = ""
  /\ prev_end_time = Sentinel
  /\ start_time = Sentinel
  /\ disk = << >>
  /\ key_idx = 0
  /\ segments = << >>
  /\ seg_idx = 0
  /\ split_segments = [sp \in {train, val, test} |-> << >>]
  /\ json_out = << >>

\* uttlabel_to_uttkey(key_arg) returns or raises.
CallKey ==
  /\ pc = "call"
  /\ IF KeyRaises(key_arg)
     THEN pc' = "error" /\ exc' = "IndexError" /\ UNCHANGED key_ret
     ELSE pc' = "return" /\ key_ret' = uttlabel_to_uttkey(key_arg) /\ UNCHANGED exc
  /\ UNCHANGED << key_arg, readVars, mainVars >>

NextKey == CallKey

SpecKey == InitKey /\ [][NextKey]_vars


(***************************************************************************)
(* Properties of read_vad_from_fa.                                         *)
(***************************************************************************)
\* read_vad_from_fa has returned its dictionary.
Returned == pc \in {"main", "done"}

\* The run is over the whole file.
FileEnded == pc \in {"main", "done", "error"}

Silence == {"SIL", "SPN"}

\* The indices of the non-silence lines.
Speech(lines) == { i \in 1..Len(lines) : lines[i].label \notin Silence }

RECURSIVE MaximalRuns(_, _, _)
\* The maximal runs of lines[i..]: a run is a sequence of adjacent lines of one
\* utterance, none of them silence, each starting where the one before ends.
\* open is the run in progress as << utterance, start, end >>, or << >>.
MaximalRuns(lines, i, open) ==
  LET closed == IF open = << >> THEN << >> ELSE << open >>
  IN IF i > Len(lines) THEN closed
     ELSE IF lines[i].label \in Silence
     THEN closed \o MaximalRuns(lines, i + 1, << >>)
     ELSE IF open # << >> /\ open[1] = lines[i].utt /\ open[3] = lines[i].start
     THEN MaximalRuns(lines, i + 1, << open[1], open[2], lines[i].end >>)
     ELSE closed \o MaximalRuns(lines, i + 1,
                       << lines[i].utt, lines[i].start, lines[i].end >>)

\* Buckeye key of a label: speaker, "_", utterance id.
BuckeyeKey(utterance) ==
  SubSeq(utterance, 1, 3) \o << "_" >> \o SubSeq(utterance, 4, Len(utterance))

\* One interval per maximal run, under the key of the run's utterance; every
\* key seen has a list.
RunIntervals(lines) ==
  LET runs == MaximalRuns(lines, 1, << >>)
      OfUtt(utterance) == SelectSeq(runs, LAMBDA r : r[1] = utterance)
  IN [key \in { BuckeyeKey(lines[i].utt) : i \in 1..Len(lines) } |->
        LET utterance == CHOOSE u \in { lines[i].utt : i \in 1..Len(lines) } :
                           BuckeyeKey(u) = key
        IN [k \in 1..Len(OfUtt(utterance)) |->
              << OfUtt(utterance)[k][2], OfUtt(utterance)[k][3] >>]]

\* C1: in seconds mode read_vad_from_fa returns, for each utterance key,
\* exactly one interval (start of first token, end of last token) per maximal
\* run of consecutive time-contiguous non-silence tokens of that utterance.
C1_OneIntervalPerRun ==
  FileEnded => Returned /\ vad_dict[FALSE] = RunIntervals(file)

\* Lines i < j are merged: one interval of their key covers both.
Merged(d, lines, i, j) ==
  /\ lines[i].utt = lines[j].utt
  /\ \E k \in 1..Len(d[BuckeyeKey(lines[i].utt)]) :
       /\ d[BuckeyeKey(lines[i].utt)][k][1] <= lines[i].start
       /\ lines[j].end <= d[BuckeyeKey(lines[i].utt)][k][2]

\* Lines i < j are non-silence lines with no non-silence line between them.
ConsecutiveSpeech(lines, i, j) ==
  /\ i \in Speech(lines) /\ j \in Speech(lines) /\ i < j
  /\ \A m \in (i + 1)..(j - 1) : m \notin Speech(lines)

\* C2: two consecutive non-silence tokens separated by a SIL/SPN token (of
\* any duration, zero included), by a change of utterance label or by a time
\* gap are never merged into one interval.
C2_GapClosesRun ==
  Returned =>
    \A i, j \in 1..Len(file) :
      ( /\ ConsecutiveSpeech(file, i, j)
        /\ \/ j > i + 1
           \/ file[i].utt # file[j].utt
           \/ file[j].start # file[i].end )
      => ~Merged(vad_dict[FALSE], file, i, j)

\* The intervals are sorted by start and do not overlap (end excluded in
\* frames; in seconds an interval ends before the next one starts).
SortedDisjoint(intervals) ==
  \A k \in 1..(Len(intervals) - 1) :
    /\ intervals[k][1] <= intervals[k + 1][1]
    /\ intervals[k][2] <= intervals[k + 1][1]

\* C3: the intervals returned for each key are sorted by start time and
\* pairwise non-overlapping, in seconds and in end-exclusive frames.
C3_SortedNonOverlapping ==
  Returned =>
    \A fi \in BOOLEAN : \A key \in DOMAIN vad_dict[fi] :
      SortedDisjoint(vad_dict[fi][key])

\* The seconds half of C3 on its own.
SecondsSortedNonOverlapping ==
  Returned => \A key \in DOMAIN vad_dict[FALSE] : SortedDisjoint(vad_dict[FALSE][key])

\* C4: for every token stream, the empty one and the all-silence ones
\* included, read_vad_from_fa returns a mapping whose keys are the keys of the
\* labels seen, an utterance with only SIL/SPN maps to the empty list, and
\* the sentinel is never recorded as an interval.
C4_CompletesWithSeenKeys ==
  FileEnded =>
    /\ Returned
    /\ \A fi \in BOOLEAN :
         /\ DOMAIN vad_dict[fi] = { BuckeyeKey(file[i].utt) : i \in 1..Len(file) }
         /\ \A i \in 1..Len(file) :
              (\A j \in Speech(file) : file[j].utt # file[i].utt)
                => vad_dict[fi][BuckeyeKey(file[i].utt)] = << >>
    /\ \A key \in DOMAIN vad_dict[FALSE] :
         \A k \in 1..Len(vad_dict[FALSE][key]) :
           vad_dict[FALSE][key][k][1] # Sentinel /\ vad_dict[FALSE][key][k][2] # Sentinel


\* (round(s * 100), round(e * 100) + 1) of the seconds interval (s, e).
FramesOf(interval) ==
  << PyRound(interval[1] * 100, TicksPerSec),
     PyRound(interval[2] * 100, TicksPerSec) + 1 >>

\* The audio file of the n-th key has been looked up and exists.
AudioExists(n) ==
  /\ WavFn(InPath(Keys[n])) \in DOMAIN disk
  /\ disk[WavFn(InPath(Keys[n]))]

RECURSIVE SegmentsBefore(_)
\* The number of records main has appended for the first n keys.
SegmentsBefore(n) ==
  IF n = 0 THEN 0
  ELSE SegmentsBefore(n - 1)
         + (IF AudioExists(n) THEN Len(MainVad[Keys[n]]) ELSE 0)

EndsWith(s, tail) ==
  Len(s) >= Len(tail) /\ SubSeq(s, Len(s) - Len(tail) + 1, Len(s)) = tail

\* C5: frame mode returns the same keys, as many intervals per key and in the
\* same order as seconds mode, each the conversion (round(s*100),
\* round(e*100)+1) of the seconds interval, (0.0, 1.0) giving (0, 101); the
\* frame numbers in main's segment identifiers are the frame-mode interval.
C5_FrameModeIsConversion ==
  /\ CloseInterval(TRUE, 0, TicksPerSec) = << 0, 101 >>
  /\ FlushInterval(TRUE, 0, TicksPerSec) = << 0, 101 >>
  /\ Returned =>
       /\ DOMAIN vad_dict[TRUE] = DOMAIN vad_dict[FALSE]
       /\ \A key \in DOMAIN vad_dict[FALSE] :
            /\ Len(vad_dict[TRUE][key]) = Len(vad_dict[FALSE][key])
            /\ \A k \in 1..Len(vad_dict[FALSE][key]) :
                 vad_dict[TRUE][key][k] = FramesOf(vad_dict[FALSE][key][k])
       /\ \A n \in 1..key_idx :
            AudioExists(n) =>
              \A k \in 1..Len(vad_dict[TRUE][Keys[n]]) :
                EndsWith(segments[SegmentsBefore(n - 1) + k][4],
                         Keys[n] \o << "_" >>
                           \o Format06d(vad_dict[TRUE][Keys[n]][k][1]) \o << "-" >>
                           \o Format06d(vad_dict[TRUE][Keys[n]][k][2]))

\* Both modes have returned two intervals for a key, one of them ending
\* between two frames, and main has built its segments.
C5_Witness ==
  /\ pc = "done"
  /\ segments # << >>
  /\ \E key \in DOMAIN vad_dict[TRUE] :
       /\ Len(vad_dict[TRUE][key]) >= 2
       /\ \E k \in 1..Len(vad_dict[FALSE][key]) :
            vad_dict[FALSE][key][k][2] % TicksPerFrame # 0

(***************************************************************************)
(* Properties of uttlabel_to_uttkey.                                       *)
(***************************************************************************)
\* The result for a label of the Buckeye shape: its first 3 characters, "_",
\* the remaining characters.
IsBuckeyeKeyOf(key, utterance) ==
  LET n == Min(3, Len(utterance))
  IN /\ Len(key) = Len(utterance) + 1
     /\ \A i \in 1..n : key[i] = utterance[i]
     /\ key[n + 1] = "_"
     /\ \A i \in (n + 1)..Len(utterance) : key[i + 1] = utterance[i]

\* The result for a label of the nchlt shape: the field at index 2, "_", the
\* other fields joined by "-".
IsNchltKeyOf(key, utterance) ==
  LET fields == Split(utterance, "_")
      others == << fields[1], fields[2] >> \o SubSeq(fields, 4, Len(fields))
  IN key = fields[3] \o << "_" >> \o Join(others, "-")

SpeakerOf(i) == SubSeq(segments[i][1], 1, 3)

Listed(speaker) ==
  \E sp \in {train, val, test} : InList(speaker, speakers_dict[sp])

\* The first of train, val, test whose list has the speaker.
FirstSplitOf(speaker) ==
  IF InList(speaker, speakers_dict[train]) THEN train
  ELSE IF InList(speaker, speakers_dict[val]) THEN val
  ELSE test

\* The places of the split buckets that hold the i-th segment.
Places(i) ==
  { << sp, k >> \in {train, val, test} \X (1..Len(segments)) :
      k <= Len(split_segments[sp]) /\ split_segments[sp][k] = i }

C7_Buckets ==
  /\ \A i \in 1..Len(segments) :
       /\ Cardinality(Places(i)) <= 1
       /\ (i <= seg_idx /\ Listed(SpeakerOf(i)))
            => \E k \in 1..Len(segments) : Places(i) = { << FirstSplitOf(SpeakerOf(i)), k >> }
  /\ pc = "done" =>
       \A sp1, sp2 \in {train, val, test} :
         sp1 # sp2 =>
           \A k1 \in 1..Len(json_out[sp1]) : \A k2 \in 1..Len(json_out[sp2]) :
             json_out[sp1][k1] # json_out[sp2][k2]

C7_Rewrite ==
  /\ \A i \in 1..Len(segments) :
       segments'[i] # segments[i] =>
         /\ i = seg_idx + 1 /\ seg_idx' = i
         /\ Listed(SpeakerOf(i))
         /\ segments'[i] =
              [segments[i] EXCEPT
                 ![4] = FirstSplitOf(SpeakerOf(i)) \o << "/" >> \o segments[i][4]]
  /\ (seg_idx' = seg_idx + 1 /\ Listed(SpeakerOf(seg_idx')))
       => segments'[seg_idx'] # segments[seg_idx']

\* C7: a segment is in at most one split's array; a segment whose speaker is
\* listed goes to the first of train, val, test that lists the speaker, and
\* its output path is rewritten once, to "<split>/<output path>"; no other
\* step changes a record.
C7_OneSplitOneRewrite == [](C7_Buckets) /\ [][C7_Rewrite]_vars

\* The run is over with a record in val, its path rewritten, and a record of
\* an unlisted speaker.
C7_Witness ==
  /\ pc = "done"
  /\ split_segments[val] # << >>
  /\ StartsWith(segments[split_segments[val][1]][4], val \o << "/" >>)
  /\ \E i \in 1..Len(segments) : ~Listed(SpeakerOf(i))


\* The file of the end-to-end scenario: s0203a with (0, 1, DH), (1, 1.5, SIL),
\* (1.5, 2.5, AH).
ScenarioFile ==
  << [utt |-> s0203a, start |-> 0, end |-> TicksPerSec, label |-> "DH"],
     [utt |-> s0203a, start |-> TicksPerSec, end |-> 3 * HalfSec, label |-> "SIL"],
     [utt |-> s0203a, start |-> 3 * HalfSec, end |-> 5 * HalfSec, label |-> "AH"] >>

\* The scenario has run to its end with the audio of s0203a on disk.
C8_Witness ==
  /\ file = ScenarioFile
  /\ pc = "done"
  /\ disk = (WavFn(<< "s", "0", "2", "/" >> \o s0203a) :> TRUE)

\* The two records of the scenario, but for their input path: offsets 0.0 and
\* 1.5, durations 1.0, both in train and in no other split.
ScenarioRecords ==
  /\ Len(segments) = 2
  /\ segments[1][2] = 0 /\ segments[1][3] = TicksPerSec
  /\ segments[2][2] = 3 * HalfSec /\ segments[2][3] = TicksPerSec
  /\ split_segments[train] = << 1, 2 >>
  /\ split_segments[val] = << >> /\ split_segments[test] = << >>
  /\ json_out[train] = segments
  /\ json_out[val] = << >> /\ json_out[test] = << >>
  /\ \A i \in 1..2 : StartsWith(segments[i][4], train \o << "/" >>)

\* C8: the scenario gives exactly two records, both with input path
\* "s02/s0203", with offset 0.0, duration 1.0 and offset 1.5, duration 1.0,
\* both in train.
C8_ScenarioAsStated ==
  C8_Witness =>
    /\ ScenarioRecords
    /\ \A i \in 1..Len(segments) :
         segments[i][1] = << "s", "0", "2", "/", "s", "0", "2", "0", "3" >>

\* C8 as amended: the scenario gives exactly two records, both with input path
\* "s02/s0203a", with offset 0.0, duration 1.0 and offset 1.5, duration 1.0,
\* both in train.
C8_Scenario ==
  C8_Witness =>
    /\ ScenarioRecords
    /\ \A i \in 1..Len(segments) :
         segments[i][1] = << "s", "0", "2", "/", "s", "0", "2", "0", "3", "a" >>

\* The last non-silence line of the lines read, 0 if there is none.
LastSpeech(lines) ==
  IF Speech(lines) = {} THEN 0
  ELSE CHOOSE i \in Speech(lines) : \A j \in Speech(lines) : j <= i

\* C9: after any token has been processed, a skipped SIL or SPN token
\* included, prev_end_time and prev_utterance are that token's end time and
\* utterance label.
C9_LookbackIsLastToken ==
  (pc = "read" /\ file # << >>) =>
    /\ prev_end_time = file[Len(file)].end
    /\ prev_utterance = file[Len(file)].utt

\* C9 as amended: after any token has been processed, prev_end_time and
\* prev_utterance are the end time and utterance label of the most recent
\* non-silence token, and -1 and "" when there is none: a skipped SIL or SPN
\* token leaves them unchanged.
C9_LookbackIsLastSpeech ==
  pc = "read" =>
    IF LastSpeech(file) = 0
    THEN prev_end_time = Sentinel /\ prev_utterance = << >>
    ELSE /\ prev_end_time = file[LastSpeech(file)].end
         /\ prev_utterance = file[LastSpeech(file)].utt

\* A silence token that ends later than the speech token before it has been
\* skipped.
C9_Witness ==
  /\ pc = "read"
  /\ Len(file) >= 2
  /\ file[Len(file)].label \in Silence
  /\ file[Len(file) - 1].label \notin Silence
  /\ file[Len(file)].end # file[Len(file) - 1].end

\* The vad mapping without the keys whose audio is missing.
WithAudio(d) ==
  [key \in { k \in DOMAIN d : WavFn(InPath(k)) \in DOMAIN disk /\ disk[WavFn(InPath(k))] }
     |-> d[key]]

RECURSIVE RecordsOf(_, _)
\* The records of a vad mapping all of whose audio exists: for each key of
\* keys, in that order, one record per interval.
RecordsOf(d, keys) ==
  IF keys = << >> THEN << >>
  ELSE KeySegments(keys[1], d[keys[1]]) \o RecordsOf(d, Tail(keys))

\* C10: when the audio of an utterance key is missing, no record is produced
\* for any of its intervals, the run goes on, and the records of the other
\* keys are those produced if the key were absent from the VAD mapping.
C10_MissingAudioSkipsUtterance ==
  (pc = "main" /\ key_idx = Len(Keys) /\ seg_idx = 0) =>
    /\ exc = "none"
    /\ segments = RecordsOf(WithAudio(MainVad), SortedKeys(DOMAIN WithAudio(MainVad)))
    /\ \A n \in 1..Len(Keys) :
         ~AudioExists(n) =>
           \A i \in 1..Len(segments) : segments[i][1] # InPath(Keys[n])

\* All keys have been handled: the audio of one key with an interval is
\* missing, and another key has records.
C10_Witness ==
  /\ pc = "main" /\ key_idx = Len(Keys) /\ seg_idx = 0
  /\ segments # << >>
  /\ \E n \in 1..Len(Keys) : ~AudioExists(n) /\ MainVad[Keys[n]] # << >>

\* The six decimal digits of n, for 0 <= n < 1000000.
SixDigits(n) ==
  LET place == << 100000, 10000, 1000, 100, 10, 1 >>
  IN [i \in 1..6 |-> Digits[((n \div place[i]) % 10) + 1]]

\* "<speaker>/K_<startFrame>-<endFrame>" for key K and the seconds interval iv.
OutputPathOf(K, iv) ==
  SubSeq(K, 1, 3) \o << "/" >> \o K \o << "_" >> \o SixDigits(FramesOf(iv)[1])
    \o << "-" >> \o SixDigits(FramesOf(iv)[2])

\* C11: main's segment list has exactly one record per VAD interval of every
\* utterance key whose audio exists, in sorted key order and, within a key, in
\* the interval order of the VAD mapping; the record of key K and interval
\* (start, end) has offset start, duration end - start and output path
\* "<speaker>/K_<startFrame>-<endFrame>", the frames being round(start*100)
\* and round(end*100)+1 as 6-digit zero-padded numbers.  The split loop leaves
\* count, order, offsets and durations alone and only prefixes output paths.
C11_SegmentsAreIntervals ==
  Returned =>
    LET keys == Keys
        before == [n \in 0..key_idx |-> SegmentsBefore(n)]
    IN /\ \A a, b \in 1..Len(keys) : a < b => StrLess(keys[a], keys[b])
       /\ { keys[a] : a \in 1..Len(keys) } = DOMAIN MainVad
       /\ Len(segments) = before[key_idx]
       /\ \A n \in 1..key_idx :
            AudioExists(n) =>
              \A k \in 1..Len(MainVad[keys[n]]) :
                LET i == before[n - 1] + k
                    iv == MainVad[keys[n]][k]
                    path == OutputPathOf(keys[n], iv)
                IN /\ segments[i][2] = iv[1]
                   /\ segments[i][3] = iv[2] - iv[1]
                   /\ IF i > seg_idx THEN segments[i][4] = path
                      ELSE EndsWith(segments[i][4], path)

\* The segment list is complete and not yet split: two keys with audio have
\* records, one of them for two intervals, one interval not starting at 0.
C11_Witness ==
  /\ pc = "main" /\ key_idx = Len(Keys) /\ seg_idx = 0
  /\ Len(segments) >= 3
  /\ \A n \in 1..Len(Keys) : AudioExists(n)
  /\ \E n \in 1..Len(Keys) : Len(MainVad[Keys[n]]) = 2
  /\ \E i, j \in 1..Len(segments) : segments[i][1] # segments[j][1]
  /\ \E i \in 1..Len(segments) : segments[i][2] > 0 /\ segments[i][3] > 0

\* The speaker of a record: the first component of its input path.
SpeakerOfRecord(r) == SubSeq(r[1], 1, 3)

\* The segment list without the records of the speakers no split lists.
ListedOnly == SelectSeq(segments, LAMBDA r : Listed(SpeakerOfRecord(r)))

\* The records of a list that go to split sp.
BucketOf(records, sp) ==
  SelectSeq(records, LAMBDA r : FirstSplitOf(SpeakerOfRecord(r)) = sp)

\* A record of an unlisted speaker is in no bucket and has the output path
\* "<speaker>/<segment key>" it was built with; the arrays written are those
\* of the segment list without the records of unlisted speakers.
C12_Dropped ==
  /\ \A i \in 1..Len(segments) :
       ~Listed(SpeakerOf(i)) =>
         /\ Places(i) = {}
         /\ StartsWith(segments[i][4], SpeakerOf(i) \o << "/" >>)
  /\ pc = "done" =>
       \A sp \in {train, val, test} :
         /\ json_out[sp] = BucketOf(ListedOnly, sp)
         /\ \A k \in 1..Len(json_out[sp]) : Listed(SpeakerOfRecord(json_out[sp][k]))

\* No step changes a record of an unlisted speaker, and the iteration of the
\* split loop on such a record changes no bucket.
C12_Untouched ==
  /\ \A i \in 1..Len(segments) :
       ~Listed(SpeakerOf(i)) => segments'[i] = segments[i]
  /\ (seg_idx' = seg_idx + 1 /\ ~Listed(SpeakerOf(seg_idx')))
       => split_segments' = split_segments /\ segments' = segments

\* C12: in the split assignment a record whose speaker is in none of the
\* train, val and test lists is appended to no bucket and is left unchanged,
\* output path included; the assignment of every other record is what it is
\* without that record.
C12_UnlistedIsDropped == [](C12_Dropped) /\ [][C12_Untouched]_vars

\* The arrays are written: a record of an unlisted speaker comes before a
\* record that went to val.
C12_Witness ==
  /\ pc = "done"
  /\ \E i, j \in 1..Len(segments) :
       /\ i < j
       /\ ~Listed(SpeakerOf(i))
       /\ json_out[val] = << segments[j] >>

\* The places of the three arrays written.
Written ==
  { << sp, k >> \in {train, val, test} \X (1..Len(segments)) :
      k <= Len(json_out[sp]) }

\* C13: across the three arrays written, no two distinct records have the
\* same output path: two different VAD intervals, whatever the resolution of
\* their timestamps, never get the same
\* "<split>/<speaker>/<uttKey>_<startFrame>-<endFrame>".
C13_DistinctOutputPaths ==
  pc = "done" =>
    \A p, q \in Written :
      json_out[p[1]][p[2]] # json_out[q[1]][q[2]]
        => json_out[p[1]][p[2]][4] # json_out[q[1]][q[2]][4]

====
